---- MODULE Spec2Model ----
(***************************************************************************)
(* Model of src/bot.py: the drift-score leaderboard bot.                   *)
(*                                                                         *)
(* src/bot.py holds two revisions of the command handlers one after the    *)
(* other (lines 183-400 and 400-636).  A name defined twice in a Python    *)
(* module is bound to its later definition, so each handler is modelled    *)
(* from its later definition: submit 442-497, leaderboard_drive 503-517,   *)
(* leaderboard_overall 520-535, my_stats 540-589, delete_score 599-609,    *)
(* reset_drive 613-620, reset_all 623-631.  leaderboard_track exists only  *)
(* in the earlier revision (271-283) and is modelled from there.           *)
(*                                                                         *)
(* The handlers are coroutines of one event loop and hold no await between *)
(* their first read of the shared state and the end of save_leaderboard(), *)
(* so a handler is one atomic action with respect to the other handlers.   *)
(* What can cut a handler short is the process dying or the file write     *)
(* raising: save_leaderboard() is therefore modelled in two steps, the     *)
(* open(DATA_FILE, "w") that truncates the file and the json.dump that     *)
(* fills it, and nothing but the end of the write, an I/O error or a crash *)
(* can happen between the two.                                             *)
(***************************************************************************)
EXTENDS Integers, Sequences, FiniteSets, TLC

VARIABLES
    leaderboard,       \* bot.py:35   drive -> track -> layout -> user -> score
    last_submit_time,  \* bot.py:42   user -> time of the last saved submission
    file,              \* the content of DATA_FILE (bot.py:19)
    clock,             \* what time.time() returns
    pc,                \* "down" | "run" | "writing" (inside save_leaderboard) | "reply"
    reply,             \* the outcome of the handler that is finishing
    crashes,           \* number of process deaths so far
    ioErrors,          \* number of I/O errors raised by save_leaderboard so far
    saveError,         \* TRUE when the last save_leaderboard() raised
    \* History, read by the properties only:
    maxPassed,         \* tuple -> greatest positive score submitted past the cooldown
    maxAll,            \* tuple -> greatest positive score submitted at all
    accTime,           \* user -> clock of the user's last Accepted submit in this run
    scen,              \* progress through the bob / 100 / 90 / 150 scenario
    prev,              \* the store before the most recent accepted mutation
    crashed,           \* the in-memory stores lost by the last crash
    \* The submit coroutines of the runs with concurrent handlers, and their history:
    tasks,             \* handler -> where the coroutine is, with its locals
    order              \* the tokens of the submits in the order of their cooldown
                       \* checks, and the Accepted ones in the order of application

progVars == <<leaderboard, last_submit_time, file, clock, pc, reply, crashes, ioErrors, saveError>>

histVars == <<maxPassed, maxAll, accTime, scen, prev, crashed>>

taskVars == <<tasks, order>>

vars == <<progVars, histVars, taskVars>>

------------------------------------------------------------------------------
(* Program constants                                                        *)

COOLDOWN_SECONDS == 30

DRIVE_TYPES == {"RWD", "AWD", "FWD"}

\* Two of the thirty entries of TRACKS (bot.py:87 and bot.py:111), with all their layouts.
TRACKS ==
    [t \in {"Kyalami Grand Prix Circuit", "Mount Panorama Circuit"} |->
        IF t = "Kyalami Grand Prix Circuit" THEN {"Grand Prix Circuit"} ELSE {"Bathurst"}]

------------------------------------------------------------------------------
(* Bounds and input sets                                                    *)

MaxTicks == 2       \* the clock advances at most this many times
MaxCrashes == 1     \* the process dies at most this many times
MaxIOErrors == 1    \* save_leaderboard raises at most this many times
MaxEntries == 2     \* submissions creating a new entry stop at this many entries
MaxTasks == 2       \* submit coroutines alive at the same time
MaxSubmits == 3     \* submits past the cooldown test in a run with concurrent handlers

TickSeconds == COOLDOWN_SECONDS \div 2
StartClock == 2 * COOLDOWN_SECONDS

Users == {"bob", "amy"}
ScoreInputs == {-1, 0, 100, 150}
ScenarioScores == {90, 100, 150}
DriveInputs == {"RWD", "AWD", "XYZ"}

\* The (drive_type, track, layout) arguments the handlers are called with: three
\* that are in the catalog, and one each with a drive type that is not in
\* DRIVE_TYPES, a track that is not in TRACKS, a layout of another track.
Places ==
    {<<"RWD", "Kyalami Grand Prix Circuit", "Grand Prix Circuit">>,
     <<"RWD", "Mount Panorama Circuit", "Bathurst">>,
     <<"AWD", "Kyalami Grand Prix Circuit", "Grand Prix Circuit">>,
     <<"XYZ", "Kyalami Grand Prix Circuit", "Grand Prix Circuit">>,
     <<"RWD", "Nowhere", "Grand Prix Circuit">>,
     <<"RWD", "Kyalami Grand Prix Circuit", "Bathurst">>}

\* The arguments of the runs with crashes and I/O errors.
FaultPlaces ==
    {<<"RWD", "Kyalami Grand Prix Circuit", "Grand Prix Circuit">>,
     <<"XYZ", "Kyalami Grand Prix Circuit", "Grand Prix Circuit">>}
FaultScores == {100, 150}

------------------------------------------------------------------------------
(* Python dicts as functions with a finite domain                           *)

EmptyDict == [k \in {} |-> 0]

Get(d, k, default) == IF k \in DOMAIN d THEN d[k] ELSE default

SetItem(d, k, v) == [x \in (DOMAIN d) \cup {k} |-> IF x = k THEN v ELSE d[x]]

SetDefault(d, k, v) == IF k \in DOMAIN d THEN d ELSE SetItem(d, k, v)

DelItem(d, k) == [x \in (DOMAIN d) \ {k} |-> d[x]]

\* Mutant: the keys already in d win, as setdefault would have it.
UpdateKeepOld(d, other) ==
    [x \in (DOMAIN d) \cup (DOMAIN other) |-> IF x \in DOMAIN d THEN d[x] ELSE other[x]]

\* dict.update(other): other's keys replace or extend d's.
Update(d, other) ==
    [x \in (DOMAIN d) \cup (DOMAIN other) |-> IF x \in DOMAIN other THEN other[x] ELSE d[x]]

InitialLeaderboard == [d \in {"RWD", "AWD", "FWD"} |-> EmptyDict]

\* The (drive, track, layout, user, score) entries a store holds.
Entries(lb) ==
    UNION {UNION {UNION {{<<d, t, l, u, lb[d][t][l][u]>> : u \in DOMAIN lb[d][t][l]}
                         : l \in DOMAIN lb[d][t]}
                  : t \in DOMAIN lb[d]}
           : d \in DOMAIN lb}

HasEntry(lb, d, t, l, u) ==
    /\ d \in DOMAIN lb
    /\ t \in DOMAIN lb[d]
    /\ l \in DOMAIN lb[d][t]
    /\ u \in DOMAIN lb[d][t][l]

------------------------------------------------------------------------------
(* DATA_FILE.  A JSON document is kept as what json.load can get out of it: *)
(* the leaf members (path and number) and the paths of its empty objects.   *)
(* A file cut short by a crash or an error inside json.dump is a proper     *)
(* prefix of a JSON object (or empty) and never parses: kind "malformed".   *)

Reply(kind, why, val, rows) == [kind |-> kind, why |-> why, val |-> val, rows |-> rows]

NoFile == [kind |-> "missing", members |-> {}, empties |-> {}]

Truncated == [kind |-> "malformed", members |-> {}, empties |-> {}]

\* json.dump(leaderboard, f, indent=4), written completely.
Dump(lb) ==
    [kind |-> "json",
     members |-> Entries(lb),
     empties |->
        {<<d>> : d \in {x \in DOMAIN lb : DOMAIN lb[x] = {}}}
        \cup UNION {{<<d, t>> : t \in {x \in DOMAIN lb[d] : DOMAIN lb[d][x] = {}}}
                    : d \in DOMAIN lb}
        \cup UNION {UNION {{<<d, t, l>> : l \in {x \in DOMAIN lb[d][t] : DOMAIN lb[d][t][x] = {}}}
                           : t \in DOMAIN lb[d]}
                    : d \in DOMAIN lb}]

\* The keys found below a path of the document.
KeysBelow(doc, prefix) ==
    LET n == Len(prefix)
        under(p) == Len(p) > n /\ SubSeq(p, 1, n) = prefix
    IN  {p[n + 1] : p \in {q \in doc.members : under(SubSeq(q, 1, 4))}}
        \cup {p[n + 1] : p \in {q \in doc.empties : under(q)}}

\* json.load(f) of a well-formed document.
Parse(doc) ==
    [d \in KeysBelow(doc, <<>>) |->
        [t \in KeysBelow(doc, <<d>>) |->
            [l \in KeysBelow(doc, <<d, t>>) |->
                [u \in KeysBelow(doc, <<d, t, l>>) |->
                    (CHOOSE q \in doc.members : SubSeq(q, 1, 4) = <<d, t, l, u>>)[5]]]]]

\* Mutant: a missing file is left missing.
LoadLeaderboardNoCreate(lb, f) ==
    IF f.kind = "missing"
    THEN [lb |-> lb, save |-> FALSE, found |-> "LoadedMissing"]
    ELSE IF f.kind = "json"
    THEN [lb |-> Update(lb, Parse(f)), save |-> FALSE, found |-> "Loaded"]
    ELSE [lb |-> Update(EmptyDict, InitialLeaderboard), save |-> TRUE, found |-> "LoadedCorrupt"]

\* Mutant: the reset after a decode error is not written back to the file.
LoadLeaderboardNoRewrite(lb, f) ==
    IF f.kind = "missing"
    THEN [lb |-> lb, save |-> TRUE, found |-> "LoadedMissing"]
    ELSE IF f.kind = "json"
    THEN [lb |-> Update(lb, Parse(f)), save |-> FALSE, found |-> "Loaded"]
    ELSE [lb |-> Update(EmptyDict, InitialLeaderboard), save |-> FALSE, found |-> "LoadedCorrupt"]

\* load_leaderboard() (bot.py:166-179) in a process whose store is lb: the store it
\* leaves, whether it calls save_leaderboard(), and what it found.
LoadLeaderboard(lb, f) ==
    IF f.kind = "missing"
    THEN [lb |-> lb, save |-> TRUE, found |-> "LoadedMissing"]
    ELSE IF f.kind = "json"
    THEN [lb |-> Update(lb, Parse(f)), save |-> FALSE, found |-> "Loaded"]
    ELSE [lb |-> Update(EmptyDict, InitialLeaderboard), save |-> TRUE, found |-> "LoadedCorrupt"]

------------------------------------------------------------------------------
(* submit (bot.py:442-497)                                                  *)

\* Mutant: the window closed one second late (<= for <).
CooldownActiveInclusive(lst, user, now) == now - Get(lst, user, 0) <= COOLDOWN_SECONDS

CooldownActive(lst, user, now) == now - Get(lst, user, 0) < COOLDOWN_SECONDS

\* if score < 1
InvalidScore(score) == score < 1

\* if drive_type not in leaderboard
UnknownDrive(lb, dt) == dt \notin DOMAIN lb

ValidTrackLayout(track, layout) == track \in DOMAIN TRACKS /\ layout \in TRACKS[track]

\* Mutant: the personal-best test left out, so that every valid score is stored.
NotBetterNever(scores, user, score) == user \in DOMAIN scores /\ score < 0

\* Mutant: the comparison turned round, so that a lower score replaces the best.
NotBetterInverted(scores, user, score) == user \in DOMAIN scores /\ score >= scores[user]

\* Mutant: an equal score counted as an improvement (< for <=).
NotBetterStrict(scores, user, score) == user \in DOMAIN scores /\ score < scores[user]

\* if current is not None and score <= current
NotBetter(scores, user, score) == user \in DOMAIN scores /\ score <= scores[user]

\* leaderboard.setdefault(drive_type, {}).setdefault(track, {}).setdefault(layout, {})
SetDefaultPath(lb, dt, track, layout) ==
    LET lb1 == SetDefault(lb, dt, EmptyDict)
        lb2 == SetItem(lb1, dt, SetDefault(lb1[dt], track, EmptyDict))
    IN  SetItem(lb2, dt, SetItem(lb2[dt], track, SetDefault(lb2[dt][track], layout, EmptyDict)))

\* Mutant: the first score stored for a user stays, as setdefault would have it.
StoreScoreKeepFirst(lb, dt, track, layout, user, score) ==
    SetItem(lb, dt, SetItem(lb[dt], track,
        SetItem(lb[dt][track], layout, SetDefault(lb[dt][track][layout], user, score))))

\* leaderboard[drive_type][track][layout][user] = score
StoreScore(lb, dt, track, layout, user, score) ==
    SetItem(lb, dt, SetItem(lb[dt], track,
        SetItem(lb[dt][track], layout, SetItem(lb[dt][track][layout], user, score))))

\* Mutant: last_submit_time[user] = now moved up, before the personal-best test.
SubmitResultRecordFirst(lb, lst, now, user, dt, track, layout, score) ==
    IF CooldownActive(lst, user, now)
    THEN [lb |-> lb, lst |-> lst, save |-> FALSE,
          reply |-> Reply("RejectedCooldown", "", 0, <<>>)]
    ELSE IF InvalidScore(score)
    THEN [lb |-> lb, lst |-> lst, save |-> FALSE,
          reply |-> Reply("RejectedInvalidInput", "score", 0, <<>>)]
    ELSE IF UnknownDrive(lb, dt)
    THEN [lb |-> lb, lst |-> lst, save |-> FALSE,
          reply |-> Reply("RejectedInvalidInput", "drive", 0, <<>>)]
    ELSE IF ~ValidTrackLayout(track, layout)
    THEN [lb |-> lb, lst |-> lst, save |-> FALSE,
          reply |-> Reply("RejectedInvalidInput", "track", 0, <<>>)]
    ELSE LET lb1 == SetDefaultPath(lb, dt, track, layout)
             scores == lb1[dt][track][layout]
         IN  IF NotBetter(scores, user, score)
             THEN [lb |-> lb1, lst |-> SetItem(lst, user, now), save |-> FALSE,
                   reply |-> Reply("RejectedNotBetter", "", scores[user], <<>>)]
             ELSE [lb |-> StoreScore(lb1, dt, track, layout, user, score),
                   lst |-> SetItem(lst, user, now), save |-> TRUE,
                   reply |-> Reply("Accepted", "", score, <<>>)]

\* Mutant: an Accepted submit that does not go on to save_leaderboard().
SubmitCheckedNoSave(lb, lst, now, user, dt, track, layout, score) ==
    IF InvalidScore(score)
    THEN [lb |-> lb, lst |-> lst, save |-> FALSE,
          reply |-> Reply("RejectedInvalidInput", "score", 0, <<>>)]
    ELSE IF UnknownDrive(lb, dt)
    THEN [lb |-> lb, lst |-> lst, save |-> FALSE,
          reply |-> Reply("RejectedInvalidInput", "drive", 0, <<>>)]
    ELSE IF ~ValidTrackLayout(track, layout)
    THEN [lb |-> lb, lst |-> lst, save |-> FALSE,
          reply |-> Reply("RejectedInvalidInput", "track", 0, <<>>)]
    ELSE LET lb1 == SetDefaultPath(lb, dt, track, layout)
             scores == lb1[dt][track][layout]
         IN  IF NotBetter(scores, user, score)
             THEN [lb |-> lb1, lst |-> lst, save |-> FALSE,
                   reply |-> Reply("RejectedNotBetter", "", scores[user], <<>>)]
             ELSE [lb |-> StoreScore(lb1, dt, track, layout, user, score),
                   lst |-> SetItem(lst, user, now), save |-> FALSE,
                   reply |-> Reply("Accepted", "", score, <<>>)]

\* The handler after the cooldown test, up to save_leaderboard().
SubmitChecked(lb, lst, now, user, dt, track, layout, score) ==
    IF InvalidScore(score)
    THEN [lb |-> lb, lst |-> lst, save |-> FALSE,
          reply |-> Reply("RejectedInvalidInput", "score", 0, <<>>)]
    ELSE IF UnknownDrive(lb, dt)
    THEN [lb |-> lb, lst |-> lst, save |-> FALSE,
          reply |-> Reply("RejectedInvalidInput", "drive", 0, <<>>)]
    ELSE IF ~ValidTrackLayout(track, layout)
    THEN [lb |-> lb, lst |-> lst, save |-> FALSE,
          reply |-> Reply("RejectedInvalidInput", "track", 0, <<>>)]
    ELSE LET lb1 == SetDefaultPath(lb, dt, track, layout)
             scores == lb1[dt][track][layout]
         IN  IF NotBetter(scores, user, score)
             THEN [lb |-> lb1, lst |-> lst, save |-> FALSE,
                   reply |-> Reply("RejectedNotBetter", "", scores[user], <<>>)]
             ELSE [lb |-> StoreScore(lb1, dt, track, layout, user, score),
                   lst |-> SetItem(lst, user, now), save |-> TRUE,
                   reply |-> Reply("Accepted", "", score, <<>>)]

\* The whole handler up to save_leaderboard(): the store and the rate-limit map
\* it leaves, its outcome, and whether it goes on to save.
SubmitResult(lb, lst, now, user, dt, track, layout, score) ==
    IF CooldownActive(lst, user, now)
    THEN [lb |-> lb, lst |-> lst, save |-> FALSE,
          reply |-> Reply("RejectedCooldown", "", 0, <<>>)]
    ELSE SubmitChecked(lb, lst, now, user, dt, track, layout, score)

------------------------------------------------------------------------------
(* Leaderboards (bot.py:271-283, 503-517, 520-535)                          *)

TopN == 10

\* for user, score in layout.items(): totals[user] = totals.get(user, 0) + score
AddLayout(totals, scores) ==
    [u \in (DOMAIN totals) \cup (DOMAIN scores) |->
        IF u \in DOMAIN scores THEN Get(totals, u, 0) + scores[u] ELSE totals[u]]

RECURSIVE AddLayouts(_, _, _)
\* for layout in track.values(): ...
AddLayouts(totals, track, keys) ==
    IF keys = {} THEN totals
    ELSE LET l == CHOOSE x \in keys : TRUE
         IN  AddLayouts(AddLayout(totals, track[l]), track, keys \ {l})

RECURSIVE AddTracks(_, _, _)
\* for track in drive.values(): ...
AddTracks(totals, drive, keys) ==
    IF keys = {} THEN totals
    ELSE LET t == CHOOSE x \in keys : TRUE
         IN  AddTracks(AddLayouts(totals, drive[t], DOMAIN drive[t]), drive, keys \ {t})

RECURSIVE AddDrives(_, _, _)
\* for drive in leaderboard.values(): ...
AddDrives(totals, lb, keys) ==
    IF keys = {} THEN totals
    ELSE LET d == CHOOSE x \in keys : TRUE
         IN  AddDrives(AddTracks(totals, lb[d], DOMAIN lb[d]), lb, keys \ {d})

\* The totals leaderboard_drive computes.
DriveTotals(lb, dt) ==
    LET drive == Get(lb, dt, EmptyDict) IN AddTracks(EmptyDict, drive, DOMAIN drive)

\* The totals leaderboard_overall computes.
OverallTotals(lb) == AddDrives(EmptyDict, lb, DOMAIN lb)

\* The scores leaderboard_track reads.
TrackScores(lb, dt, track, layout) ==
    Get(Get(Get(lb, dt, EmptyDict), track, EmptyDict), layout, EmptyDict)

RECURSIVE SortedItems(_, _)
\* sorted(d.items(), key=lambda x: x[1], reverse=True) over the keys given.  sorted()
\* is stable, so equal scores keep the dict's insertion order; the model does not
\* keep that order and allows every order of equal scores.
SortedItems(d, keys) ==
    IF keys = {} THEN {<<>>}
    ELSE LET top == {u \in keys : \A v \in keys : d[u] >= d[v]}
         IN  UNION {{<<<<u, d[u]>>>> \o s : s \in SortedItems(d, keys \ {u})} : u \in top}

\* Mutant: the whole sorted list, without the [:10].
SortedTopAll(d) == SortedItems(d, DOMAIN d)

\* sorted(d.items(), key=lambda x: x[1], reverse=True)[:10]
SortedTop(d) ==
    {SubSeq(s, 1, IF Len(s) < TopN THEN Len(s) ELSE TopN) : s \in SortedItems(d, DOMAIN d)}

------------------------------------------------------------------------------
(* my_stats (bot.py:540-589)                                                *)

\* The users with an entry below a drive type that per_drive has no key for:
\* per_drive[drive] += layout[user] raises KeyError for them (bot.py:543, 550).
StatsKeyError(lb, user) ==
    \E e \in Entries(lb) : e[4] = user /\ e[1] \notin {"RWD", "AWD", "FWD"}

\* rank_for(total_map): the 1-based position of user in total_map sorted by value,
\* greatest first.  Equal totals may come in either order (see SortedTop).
RankFor(total_map, user) ==
    LET above == Cardinality({u \in DOMAIN total_map : total_map[u] > total_map[user]})
        level == Cardinality({u \in DOMAIN total_map : total_map[u] = total_map[user]})
    IN  (above + 1)..(above + level)

\* The answers my_stats can give to user: the KeyError, "You have no recorded
\* scores.", or the embed: one row <<name, total, rank>> for Overall and one for each
\* drive type of DRIVE_TYPES, in its order, where the user has a total.
MyStatsReplies(lb, user) ==
    LET overall_map == OverallTotals(lb)
        overall_total == Get(overall_map, user, 0)
        drive_map(d) == DriveTotals(lb, d)
        ranks == {f \in [DRIVE_TYPES -> 0..Cardinality(DOMAIN overall_map)] :
                    \A d \in DRIVE_TYPES :
                        IF user \in DOMAIN drive_map(d)
                        THEN f[d] \in RankFor(drive_map(d), user)
                        ELSE f[d] = 0}
        row(f, d) == <<d, Get(drive_map(d), user, 0), f[d]>>
        shown(r) == r[3] # 0
    IN  IF StatsKeyError(lb, user)
        THEN {Reply("Raised", "KeyError", 0, <<>>)}
        ELSE IF overall_total = 0
        THEN {Reply("NoScores", "", 0, <<>>)}
        ELSE {Reply("Stats", user, overall_total,
                    <<<<"Overall", overall_total, ro>>>>
                    \o SelectSeq(<<row(f, "RWD"), row(f, "AWD"), row(f, "FWD")>>, shown))
                : ro \in RankFor(overall_map, user), f \in ranks}

------------------------------------------------------------------------------
(* The state machine                                                        *)

None == Reply("None", "", 0, <<>>)

Raised == Reply("Raised", "", 0, <<>>)

NoCrash == [valid |-> FALSE, mem |-> EmptyDict, prev |-> EmptyDict, synced |-> FALSE]

\* A handler slot with no coroutine in it.
NoTask == [at |-> "idle", token |-> 0, user |-> "", now |-> 0, score |-> 0, reply |-> None]

NoTasks == [h \in 1..MaxTasks |-> NoTask]

NoOrder == [checked |-> <<>>, applied |-> <<>>]

NoScenario == [stage |-> 0, t0 |-> 0, late |-> TRUE]

Max(a, b) == IF a >= b THEN a ELSE b

\* History kept only for the tuples that still have an entry.
Prune(h, lb) == [k \in {x \in DOMAIN h : HasEntry(lb, x[1], x[2], x[3], x[4])} |-> h[k]]

InCatalog(dt, track, layout) ==
    dt \in DRIVE_TYPES /\ track \in DOMAIN TRACKS /\ layout \in TRACKS[track]

\* The module-level state (bot.py:35-42) in a process started when time.time() is t.
InitAt(t) ==
    /\ leaderboard = InitialLeaderboard
    /\ last_submit_time = EmptyDict
    /\ file \in {NoFile, Truncated}
    /\ clock = t
    /\ pc = "down"
    /\ reply = None
    /\ crashes = 0
    /\ ioErrors = 0
    /\ saveError = FALSE
    /\ maxPassed = EmptyDict
    /\ maxAll = EmptyDict
    /\ accTime = EmptyDict
    /\ scen = NoScenario
    /\ prev = InitialLeaderboard
    /\ crashed = NoCrash
    /\ tasks = NoTasks
    /\ order = NoOrder

Init == InitAt(StartClock)

\* save_leaderboard() up to open(DATA_FILE, "w"), which truncates the file (io = "ok")
\* or raises OSError and leaves it alone (io = "error"); out is the handler's outcome.
Save(io, out) ==
    IF io = "ok"
    THEN /\ file' = Truncated
         /\ pc' = "writing"
         /\ reply' = out
         /\ UNCHANGED <<ioErrors, saveError>>
    ELSE /\ ioErrors < MaxIOErrors
         /\ ioErrors' = ioErrors + 1
         /\ saveError' = TRUE
         /\ pc' = "reply"
         /\ reply' = Raised
         /\ UNCHANGED file

\* A handler that answers without saving.
NoSave(out) ==
    /\ pc' = "reply"
    /\ reply' = out
    /\ UNCHANGED <<file, ioErrors, saveError>>

\* json.dump and the close of the file complete (bot.py:163-164).
WriteEnd ==
    /\ pc = "writing"
    /\ file' = Dump(leaderboard)
    /\ pc' = "reply"
    /\ saveError' = FALSE
    /\ UNCHANGED <<leaderboard, last_submit_time, clock, reply, crashes, ioErrors, histVars, taskVars>>

\* Mutant: the handler undoes its mutation when json.dump raises.
WriteErrorRollback ==
    /\ pc = "writing"
    /\ ioErrors < MaxIOErrors
    /\ ioErrors' = ioErrors + 1
    /\ saveError' = TRUE
    /\ pc' = "reply"
    /\ reply' = Raised
    /\ leaderboard' = prev
    /\ UNCHANGED <<last_submit_time, file, clock, crashes, histVars, taskVars>>

\* json.dump raises OSError part-way: the file stays cut short.
WriteError ==
    /\ pc = "writing"
    /\ ioErrors < MaxIOErrors
    /\ ioErrors' = ioErrors + 1
    /\ saveError' = TRUE
    /\ pc' = "reply"
    /\ reply' = Raised
    /\ UNCHANGED <<leaderboard, last_submit_time, file, clock, crashes, histVars, taskVars>>

\* await interaction.response.send_message(...): the handler ends.
Deliver ==
    /\ pc = "reply"
    /\ pc' = "run"
    /\ reply' = None
    /\ UNCHANGED <<leaderboard, last_submit_time, file, clock, crashes, ioErrors, saveError,
                   histVars, taskVars>>

\* The process dies; the next process starts from the module-level initial values
\* (bot.py:35-42).
Crash ==
    /\ pc # "down"
    /\ crashes < MaxCrashes
    /\ crashes' = crashes + 1
    /\ pc' = "down"
    /\ leaderboard' = InitialLeaderboard
    /\ last_submit_time' = EmptyDict
    /\ reply' = None
    /\ saveError' = FALSE
    /\ maxPassed' = EmptyDict
    /\ maxAll' = EmptyDict
    /\ accTime' = EmptyDict
    /\ scen' = NoScenario
    /\ crashed' = [valid |-> TRUE, mem |-> leaderboard, prev |-> prev,
                   synced |-> pc # "writing" /\ ~saveError]
    /\ tasks' = NoTasks
    /\ UNCHANGED <<file, clock, ioErrors, prev, order>>

\* on_ready -> load_leaderboard() (bot.py:166-179)
Start(io) ==
    /\ pc = "down"
    /\ UNCHANGED <<last_submit_time, clock, crashes, maxPassed, maxAll, accTime, scen, crashed, taskVars>>
    /\ LET r == LoadLeaderboard(leaderboard, file)
       IN  /\ leaderboard' = r.lb
           /\ io = "error" => r.save
           /\ IF r.save
              THEN Save(io, Reply(r.found, "", 0, <<>>))
              ELSE NoSave(Reply(r.found, "", 0, <<>>))
    /\ prev' = leaderboard'

Tick ==
    /\ pc = "run"
    /\ clock < StartClock + MaxTicks * TickSeconds
    /\ clock' = clock + TickSeconds
    /\ UNCHANGED <<leaderboard, last_submit_time, file, pc, reply, crashes, ioErrors,
                   saveError, histVars, taskVars>>

\* submit (bot.py:442-497)
Submit(user, dt, track, layout, score, io) ==
    /\ pc = "run"
    /\ LET r == SubmitResult(leaderboard, last_submit_time, clock, user, dt, track, layout, score)
       IN  /\ (r.save /\ ~HasEntry(leaderboard, dt, track, layout, user))
                => Cardinality(Entries(leaderboard)) < MaxEntries
           /\ io = "error" => r.save
           /\ leaderboard' = r.lb
           /\ last_submit_time' = r.lst
           /\ IF r.save THEN Save(io, r.reply) ELSE NoSave(r.reply)
    /\ UNCHANGED <<clock, crashes>>

\* del leaderboard[drive_type][track][layout][user.name]
DelScore(lb, dt, track, layout, user) ==
    SetItem(lb, dt, SetItem(lb[dt], track,
        SetItem(lb[dt][track], layout, DelItem(lb[dt][track][layout], user))))

\* Mutant: save_leaderboard() moved out of the try block, so that it runs after the
\* KeyError too.
DeleteResultSaveAlways(lb, admin, dt, track, layout, user) ==
    IF ~admin
    THEN [lb |-> lb, save |-> FALSE, reply |-> Reply("AdminOnly", "", 0, <<>>)]
    ELSE IF HasEntry(lb, dt, track, layout, user)
    THEN [lb |-> DelScore(lb, dt, track, layout, user), save |-> TRUE,
          reply |-> Reply("Deleted", "", 0, <<>>)]
    ELSE [lb |-> lb, save |-> TRUE, reply |-> Reply("NotFound", "", 0, <<>>)]

\* delete_score up to save_leaderboard(): the del raises KeyError when any of the
\* four keys is missing (bot.py:604-609).
DeleteResult(lb, admin, dt, track, layout, user) ==
    IF ~admin
    THEN [lb |-> lb, save |-> FALSE, reply |-> Reply("AdminOnly", "", 0, <<>>)]
    ELSE IF HasEntry(lb, dt, track, layout, user)
    THEN [lb |-> DelScore(lb, dt, track, layout, user), save |-> TRUE,
          reply |-> Reply("Deleted", "", 0, <<>>)]
    ELSE [lb |-> lb, save |-> FALSE, reply |-> Reply("NotFound", "", 0, <<>>)]

\* delete_score (bot.py:599-609)
DeleteScore(admin, dt, track, layout, user, io) ==
    /\ pc = "run"
    /\ UNCHANGED <<last_submit_time, clock, crashes>>
    /\ LET r == DeleteResult(leaderboard, admin, dt, track, layout, user)
       IN  /\ io = "error" => r.save
           /\ leaderboard' = r.lb
           /\ IF r.save THEN Save(io, r.reply) ELSE NoSave(r.reply)

\* Mutant: every drive type of the store is emptied, as reset_all would have it.
ClearDriveAll(lb, dt) == [d \in (DOMAIN lb) \cup {dt} |-> EmptyDict]

\* leaderboard[drive_type] = {}
ClearDrive(lb, dt) == SetItem(lb, dt, EmptyDict)

\* reset_drive (bot.py:613-620); the answer names the drive type.
ResetDrive(admin, dt, io) ==
    /\ pc = "run"
    /\ UNCHANGED <<last_submit_time, clock, crashes>>
    /\ IF ~admin
       THEN /\ io = "ok"
            /\ leaderboard' = leaderboard
            /\ NoSave(Reply("AdminOnly", "", 0, <<>>))
       ELSE /\ leaderboard' = ClearDrive(leaderboard, dt)
            /\ Save(io, Reply("DriveReset", dt, 0, <<>>))

\* reset_all (bot.py:623-631)
ResetAll(admin, io) ==
    /\ pc = "run"
    /\ UNCHANGED <<last_submit_time, clock, crashes>>
    /\ IF ~admin
       THEN /\ io = "ok"
            /\ leaderboard' = leaderboard
            /\ NoSave(Reply("AdminOnly", "", 0, <<>>))
       ELSE /\ leaderboard' = Update(EmptyDict, InitialLeaderboard)
            /\ Save(io, Reply("AllReset", "", 0, <<>>))

\* leaderboard_track (bot.py:271-283)
LeaderboardTrack(dt, track, layout) ==
    /\ pc = "run"
    /\ LET scores == TrackScores(leaderboard, dt, track, layout)
       IN  IF scores = EmptyDict
           THEN NoSave(Reply("NoScores", "", 0, <<>>))
           ELSE \E rows \in SortedTop(scores) : NoSave(Reply("Board", <<"track", dt, track, layout>>, 0, rows))
    /\ UNCHANGED <<leaderboard, last_submit_time, clock, crashes>>

\* leaderboard_drive (bot.py:503-517)
LeaderboardDrive(dt) ==
    /\ pc = "run"
    /\ \E rows \in SortedTop(DriveTotals(leaderboard, dt)) :
            NoSave(Reply("Board", <<"drive", dt>>, 0, rows))
    /\ UNCHANGED <<leaderboard, last_submit_time, clock, crashes>>

\* leaderboard_overall (bot.py:520-535)
LeaderboardOverall ==
    /\ pc = "run"
    /\ \E rows \in SortedTop(OverallTotals(leaderboard)) :
            NoSave(Reply("Board", <<"overall">>, 0, rows))
    /\ UNCHANGED <<leaderboard, last_submit_time, clock, crashes>>

\* my_stats (bot.py:540-589)
MyStats(user) ==
    /\ pc = "run"
    /\ \E out \in MyStatsReplies(leaderboard, user) : NoSave(out)
    /\ UNCHANGED <<leaderboard, last_submit_time, clock, crashes>>

------------------------------------------------------------------------------
(* History.  Each specification keeps the history its properties read and   *)
(* leaves the rest alone.                                                   *)

\* What a submit adds to the scores submitted so far and to the times of the
\* accepted submits.
BestHistory(user, dt, track, layout, score) ==
    LET r == SubmitResult(leaderboard, last_submit_time, clock, user, dt, track, layout, score)
        k == <<dt, track, layout, user>>
    IN  /\ maxPassed' =
             IF score > 0 /\ InCatalog(dt, track, layout) /\ r.reply.kind # "RejectedCooldown"
             THEN SetItem(maxPassed, k, Max(Get(maxPassed, k, 0), score))
             ELSE maxPassed
        /\ maxAll' =
             IF score > 0 /\ (k \in DOMAIN maxAll \/ HasEntry(r.lb, dt, track, layout, user))
             THEN SetItem(maxAll, k, Max(Get(maxAll, k, 0), score))
             ELSE maxAll
        /\ accTime' =
             IF r.reply.kind = "Accepted" THEN SetItem(accTime, user, clock) ELSE accTime

\* An admin handler ends the sequences of submits of the tuples it removes.
PrunedHistory ==
    /\ maxPassed' = Prune(maxPassed, leaderboard')
    /\ maxAll' = Prune(maxAll, leaderboard')
    /\ UNCHANGED accTime

\* A handler that reaches save_leaderboard() has made the most recent mutation.
CrashHistory ==
    LET saved == pc' = "writing" \/ reply' = Raised
    IN  /\ prev' = IF saved THEN leaderboard ELSE prev
        /\ crashed' = IF saved THEN NoCrash ELSE crashed

\* The scenario: from a store with no entry and no rate-limit record of bob,
\* bob submits 100, then 90, then 150 to one tuple, then the tuple is queried.
ScenPlace == <<"RWD", "Kyalami Grand Prix Circuit", "Grand Prix Circuit">>

ScenAfterSubmit(user, dt, track, layout, score) ==
    LET here == user = "bob" /\ <<dt, track, layout>> = ScenPlace
        late == clock - scen.t0 >= COOLDOWN_SECONDS
    IN  IF here /\ score = 100 /\ Entries(leaderboard) = {} /\ "bob" \notin DOMAIN last_submit_time
        THEN [stage |-> 1, t0 |-> clock, late |-> TRUE]
        ELSE IF here /\ score = 90 /\ scen.stage = 1
        THEN [stage |-> 2, t0 |-> scen.t0, late |-> late]
        ELSE IF here /\ score = 150 /\ scen.stage = 2
        THEN [stage |-> 3, t0 |-> scen.t0, late |-> scen.late /\ late]
        ELSE NoScenario

ScenAfterBoard == IF scen.stage = 3 THEN [scen EXCEPT !.stage = 4] ELSE NoScenario

------------------------------------------------------------------------------
(* Spec: the bot in service, with a disk that works and a process that      *)
(* lives.                                                                   *)

StartUp == Start("ok")

SubmitAny ==
    \E user \in Users, p \in Places, score \in ScoreInputs :
        /\ Submit(user, p[1], p[2], p[3], score, "ok")
        /\ BestHistory(user, p[1], p[2], p[3], score)
        /\ UNCHANGED <<scen, prev, crashed, taskVars>>

DeleteAny ==
    \E admin \in BOOLEAN, p \in Places, user \in Users :
        /\ DeleteScore(admin, p[1], p[2], p[3], user, "ok")
        /\ PrunedHistory
        /\ UNCHANGED <<scen, prev, crashed, taskVars>>

ResetDriveAny ==
    \E admin \in BOOLEAN, dt \in DriveInputs :
        /\ ResetDrive(admin, dt, "ok")
        /\ PrunedHistory
        /\ UNCHANGED <<scen, prev, crashed, taskVars>>

ResetAllAny ==
    \E admin \in BOOLEAN :
        /\ ResetAll(admin, "ok")
        /\ PrunedHistory
        /\ UNCHANGED <<scen, prev, crashed, taskVars>>

TrackBoardAny == \E p \in Places : LeaderboardTrack(p[1], p[2], p[3]) /\ UNCHANGED <<histVars, taskVars>>

DriveBoardAny == \E dt \in DriveInputs : LeaderboardDrive(dt) /\ UNCHANGED <<histVars, taskVars>>

OverallBoard == LeaderboardOverall /\ UNCHANGED <<histVars, taskVars>>

StatsAny == \E user \in Users : MyStats(user) /\ UNCHANGED <<histVars, taskVars>>

Next ==
    \/ StartUp
    \/ Tick
    \/ SubmitAny
    \/ DeleteAny
    \/ ResetDriveAny
    \/ ResetAllAny
    \/ TrackBoardAny
    \/ DriveBoardAny
    \/ OverallBoard
    \/ StatsAny
    \/ WriteEnd
    \/ Deliver

Spec == Init /\ [][Next]_vars

------------------------------------------------------------------------------
(* SpecFaults: the same handlers when the process can die and               *)
(* save_leaderboard() can raise.  The clock stands still in these runs.     *)

IO == {"ok", "error"}

StartFaulty == \E io \in IO : Start(io)

SubmitFaulty ==
    \E user \in Users, p \in FaultPlaces, score \in FaultScores, io \in IO :
        /\ Submit(user, p[1], p[2], p[3], score, io)
        /\ CrashHistory
        /\ UNCHANGED <<maxPassed, maxAll, accTime, scen, taskVars>>

DeleteFaulty ==
    \E p \in FaultPlaces, user \in Users, io \in IO :
        /\ DeleteScore(TRUE, p[1], p[2], p[3], user, io)
        /\ CrashHistory
        /\ UNCHANGED <<maxPassed, maxAll, accTime, scen, taskVars>>

ResetDriveFaulty ==
    \E dt \in {"RWD", "XYZ"}, io \in IO :
        /\ ResetDrive(TRUE, dt, io)
        /\ CrashHistory
        /\ UNCHANGED <<maxPassed, maxAll, accTime, scen, taskVars>>

ResetAllFaulty ==
    \E io \in IO :
        /\ ResetAll(TRUE, io)
        /\ CrashHistory
        /\ UNCHANGED <<maxPassed, maxAll, accTime, scen, taskVars>>

OverallFaulty == LeaderboardOverall /\ UNCHANGED <<histVars, taskVars>>

NextFaults ==
    \/ StartFaulty
    \/ SubmitFaulty
    \/ DeleteFaulty
    \/ ResetDriveFaulty
    \/ ResetAllFaulty
    \/ OverallFaulty
    \/ WriteEnd
    \/ WriteError
    \/ Deliver
    \/ Crash

SpecFaults == Init /\ [][NextFaults]_vars

------------------------------------------------------------------------------
(* SpecScenario: two users submitting to one tuple and reading its board.   *)

SubmitScenario ==
    \E user \in Users, score \in ScenarioScores :
        /\ Submit(user, ScenPlace[1], ScenPlace[2], ScenPlace[3], score, "ok")
        /\ scen' = ScenAfterSubmit(user, ScenPlace[1], ScenPlace[2], ScenPlace[3], score)
        /\ UNCHANGED <<maxPassed, maxAll, accTime, prev, crashed, taskVars>>

TrackBoardScenario ==
    /\ LeaderboardTrack(ScenPlace[1], ScenPlace[2], ScenPlace[3])
    /\ scen' = ScenAfterBoard
    /\ UNCHANGED <<maxPassed, maxAll, accTime, prev, crashed, taskVars>>

NextScenario ==
    \/ StartUp
    \/ Tick
    \/ SubmitScenario
    \/ TrackBoardScenario
    \/ WriteEnd
    \/ Deliver

SpecScenario == Init /\ [][NextScenario]_vars

------------------------------------------------------------------------------
(* SpecEpoch: the scenario's handlers in a process started with the system  *)
(* clock at the Unix epoch, where time.time() returns 0.                    *)

SpecEpoch == InitAt(0) /\ [][NextScenario]_vars

------------------------------------------------------------------------------
(* SpecBoards: a process started on a DATA_FILE that earlier runs left with *)
(* the scores of more users than a board shows, answering the leaderboard   *)
(* commands.                                                                *)

MaxBoardUsers == 11   \* the users with a score in the file: one more than TopN

BoardNames ==
    <<"u01", "u02", "u03", "u04", "u05", "u06", "u07", "u08", "u09", "u10", "u11", "u12">>

\* How many users have a score on the board's tuple.
BoardSizes == {1, MaxBoardUsers - 1, MaxBoardUsers}

\* The users whose score is raised to the score of the next user: a tie between the
\* two lowest, between the second and the third lowest, between the two highest.
BumpChoices == {1, 2, MaxBoardUsers - 1}

\* Entries on other tuples, which change the totals: the lowest user's second score
\* in the same drive type, the second lowest user's score in another drive type.
BoardExtras ==
    {<<"RWD", "Mount Panorama Circuit", "Bathurst", BoardNames[1], 200>>,
     <<"AWD", "Kyalami Grand Prix Circuit", "Grand Prix Circuit", BoardNames[2], 15>>}

\* The store after the first n users had their score accepted on the tuple.
BoardStore(n, bumped) ==
    LET scores == [u \in {BoardNames[i] : i \in 1..n} |->
                      LET i == CHOOSE k \in 1..n : BoardNames[k] = u
                      IN  10 * i + (IF i \in bumped THEN 10 ELSE 0)]
    IN  SetItem(InitialLeaderboard, ScenPlace[1],
                SetItem(EmptyDict, ScenPlace[2], SetItem(EmptyDict, ScenPlace[3], scores)))

RECURSIVE WithExtras(_, _)
WithExtras(lb, extras) ==
    IF extras = {} THEN lb
    ELSE LET e == CHOOSE x \in extras : TRUE
         IN  WithExtras(StoreScore(SetDefaultPath(lb, e[1], e[2], e[3]),
                                   e[1], e[2], e[3], e[4], e[5]), extras \ {e})

\* The documents save_leaderboard() left in DATA_FILE.
BoardFiles ==
    {Dump(WithExtras(BoardStore(n, bumped), extras)) :
        n \in BoardSizes, bumped \in SUBSET BumpChoices, extras \in SUBSET BoardExtras}

InitBoards ==
    /\ leaderboard = InitialLeaderboard
    /\ last_submit_time = EmptyDict
    /\ file \in BoardFiles
    /\ clock = StartClock
    /\ pc = "down"
    /\ reply = None
    /\ crashes = 0
    /\ ioErrors = 0
    /\ saveError = FALSE
    /\ maxPassed = EmptyDict
    /\ maxAll = EmptyDict
    /\ accTime = EmptyDict
    /\ scen = NoScenario
    /\ prev = InitialLeaderboard
    /\ crashed = NoCrash
    /\ tasks = NoTasks
    /\ order = NoOrder

NextBoards ==
    \/ StartUp
    \/ TrackBoardAny
    \/ DriveBoardAny
    \/ OverallBoard
    \/ Deliver

SpecBoards == InitBoards /\ [][NextBoards]_vars

------------------------------------------------------------------------------
(* SpecTasks: submit handlers running as concurrent coroutines of the one   *)
(* event loop of bot.run (bot.py:636), with reset_all beside them.  A       *)
(* coroutine is followed through its cooldown test (bot.py:449-457), the    *)
(* rest of its body up to save_leaderboard() (bot.py:459-489) and its final *)
(* await (bot.py:497); the loop takes up another coroutine only where the   *)
(* running one awaits.                                                      *)

\* The positions at which a coroutine has given the event loop back: before its
\* first statement and at `await interaction.response.send_message`, the only
\* await expressions of submit (bot.py:453, 460, 467, 471, 481, 497).
SwitchPointAnywhere(at) == TRUE

SwitchPoint(at) == at \in {"idle", "await"}

\* The event loop can run coroutine h: no handler is inside save_leaderboard() and
\* every other coroutine is at a switch point.
LoopFree(h) ==
    /\ pc \in {"run", "reply"}
    /\ \A k \in (1..MaxTasks) \ {h} : SwitchPoint(tasks[k].at)

\* submit, from its first statement through the cooldown test (bot.py:449-457).
SubmitBegin(h, user, score) ==
    /\ LoopFree(h)
    /\ tasks[h].at = "idle"
    /\ Len(order.checked) < MaxSubmits
    /\ IF CooldownActive(last_submit_time, user, clock)
       THEN /\ tasks' = [tasks EXCEPT ![h] =
                    [at |-> "await", token |-> 0, user |-> user, now |-> 0,
                     score |-> 0, reply |-> Reply("RejectedCooldown", "", 0, <<>>)]]
            /\ UNCHANGED order
       ELSE LET token == Len(order.checked) + 1
            IN  /\ tasks' = [tasks EXCEPT ![h] =
                        [at |-> "checked", token |-> token, user |-> user, now |-> clock,
                         score |-> score, reply |-> None]]
                /\ order' = [order EXCEPT !.checked = Append(@, token)]
    /\ UNCHANGED <<progVars, histVars>>

\* submit, from the score test to the end of save_leaderboard() (bot.py:459-489).
SubmitApply(h) ==
    /\ LoopFree(h)
    /\ tasks[h].at = "checked"
    /\ LET t == tasks[h]
           r == SubmitChecked(leaderboard, last_submit_time, t.now, t.user,
                              ScenPlace[1], ScenPlace[2], ScenPlace[3], t.score)
       IN  /\ leaderboard' = r.lb
           /\ last_submit_time' = r.lst
           /\ file' = IF r.save THEN Dump(r.lb) ELSE file
           \* now and score are not read after this point
           /\ tasks' = [tasks EXCEPT ![h] = [at |-> "await", token |-> t.token,
                                              user |-> t.user, now |-> 0, score |-> 0,
                                              reply |-> r.reply]]
           /\ order' = IF r.reply.kind = "Accepted"
                       THEN [order EXCEPT !.applied =
                                Append(@, [token |-> t.token, user |-> t.user, now |-> t.now])]
                       ELSE order
    /\ UNCHANGED <<clock, pc, reply, crashes, ioErrors, saveError, histVars>>

\* await interaction.response.send_message(...) returns and the coroutine ends.
SubmitEnd(h) ==
    /\ LoopFree(h)
    /\ tasks[h].at = "await"
    /\ tasks' = [tasks EXCEPT ![h] = NoTask]
    /\ UNCHANGED <<progVars, histVars, order>>

\* A new coroutine takes the first free slot.
BeginAny ==
    \E h \in 1..MaxTasks, user \in Users, score \in FaultScores :
        /\ \A k \in 1..(h - 1) : tasks[k].at # "idle"
        /\ SubmitBegin(h, user, score)

ApplyAny == \E h \in 1..MaxTasks : SubmitApply(h)

EndAny == \E h \in 1..MaxTasks : SubmitEnd(h)

\* reset_all, taken up by the event loop when no coroutine is in the middle of its body.
ResetAllBeside ==
    /\ \A k \in 1..MaxTasks : SwitchPoint(tasks[k].at)
    /\ ResetAll(TRUE, "ok")
    /\ UNCHANGED <<histVars, taskVars>>

NextTasks ==
    \/ StartUp
    \/ Tick
    \/ BeginAny
    \/ ApplyAny
    \/ EndAny
    \/ ResetAllBeside
    \/ WriteEnd
    \/ Deliver

SpecTasks == Init /\ [][NextTasks]_vars

------------------------------------------------------------------------------
(* Properties                                                               *)

Has(k) == HasEntry(leaderboard, k[1], k[2], k[3], k[4])

Stored(k) == leaderboard[k[1]][k[2]][k[3]][k[4]]

\* What submit would do with these arguments in the current state.
Would(user, p, score) ==
    SubmitResult(leaderboard, last_submit_time, clock, user, p[1], p[2], p[3], score)

\* The user had a submission accepted less than COOLDOWN_SECONDS from now, in this
\* run of the process.
Within(user) ==
    /\ user \in DOMAIN accTime
    /\ clock - accTime[user] < COOLDOWN_SECONDS
    /\ accTime[user] - clock < COOLDOWN_SECONDS

\* C1, as stated: after a sequence of submits to one tuple that began with no entry
\* for it, the stored value is the greatest positive score submitted in the sequence.
C1_StoredIsMaxSubmitted ==
    \A k \in DOMAIN maxAll : Has(k) /\ Stored(k) = maxAll[k]

\* C1, amended: the stored value is the greatest positive score among the submits of
\* the sequence that were not rejected for cooldown (a higher score submitted inside
\* the cooldown window is not stored); no stored value is <= 0.
C1_StoredIsMaxPastCooldown ==
    /\ \A e \in Entries(leaderboard) : e[5] > 0
    /\ \A k \in DOMAIN maxPassed : Has(k) /\ Stored(k) = maxPassed[k]
    /\ \A e \in Entries(leaderboard) :
            InCatalog(e[1], e[2], e[3]) => <<e[1], e[2], e[3], e[4]>> \in DOMAIN maxPassed

\* A tuple to which a score above the stored one was submitted inside the cooldown.
C1_Witness ==
    \E k \in DOMAIN maxPassed : k \in DOMAIN maxAll /\ Has(k) /\ maxAll[k] > maxPassed[k]

\* C2, as stated: a submit with score <= the submitter's stored best for the tuple
\* leaves the store alone and is answered RejectedNotBetter with that best.
C2_NotBetterAsStated ==
    pc = "run" =>
        \A user \in Users, p \in Places, score \in ScoreInputs :
            LET k == <<p[1], p[2], p[3], user>> IN
            (Has(k) /\ score <= Stored(k)) =>
                /\ Would(user, p, score).lb = leaderboard
                /\ Would(user, p, score).reply = Reply("RejectedNotBetter", "", Stored(k), <<>>)

\* C2, amended: such a submit leaves the store alone; it is answered
\* RejectedNotBetter with the stored best when the score is positive and the
\* submitter is outside the cooldown window, RejectedCooldown inside the window,
\* and RejectedInvalidInput when the score is <= 0 outside the window.
C2_NotBetterPastCooldown ==
    pc = "run" =>
        \A user \in Users, p \in Places, score \in ScoreInputs :
            LET k == <<p[1], p[2], p[3], user>> IN
            (Has(k) /\ score <= Stored(k)) =>
                /\ Would(user, p, score).lb = leaderboard
                /\ ~Would(user, p, score).save
                /\ Would(user, p, score).reply =
                        IF Within(user) THEN Reply("RejectedCooldown", "", 0, <<>>)
                        ELSE IF score <= 0 THEN Reply("RejectedInvalidInput", "score", 0, <<>>)
                        ELSE Reply("RejectedNotBetter", "", Stored(k), <<>>)

\* A submit has just been answered RejectedNotBetter with a best that is stored.
C2_Witness ==
    /\ pc = "reply"
    /\ reply.kind = "RejectedNotBetter"
    /\ \E e \in Entries(leaderboard) : e[5] = reply.val

\* C3: within one run of the process, a submit is answered RejectedCooldown exactly
\* when a submit of the same user was Accepted less than COOLDOWN_SECONDS before it,
\* whatever its other arguments; so an earlier rejected submit never causes it.
C3_CooldownAfterAccepted ==
    pc = "run" =>
        \A user \in Users, p \in Places, score \in ScoreInputs :
            (Would(user, p, score).reply.kind = "RejectedCooldown") <=> Within(user)

\* A submit has just been rejected for cooldown while the clock has moved on from the
\* accepted one, and another was accepted COOLDOWN_SECONDS or more after an earlier one.
C3_Witness ==
    /\ pc = "reply"
    /\ reply.kind = "RejectedCooldown"
    /\ \E u \in DOMAIN accTime : clock > accTime[u] /\ Within(u)

\* C5: a submit whose outcome is not Accepted leaves last_submit_time as it was.
C5_RejectedKeepsRateLimit ==
    [][(pc = "run"
        /\ reply'.kind \in {"RejectedCooldown", "RejectedInvalidInput", "RejectedNotBetter"})
            => last_submit_time' = last_submit_time]_vars

\* A submit of a user with a rate-limit record has just been rejected as not better.
C5_Witness ==
    /\ pc = "reply"
    /\ reply.kind = "RejectedNotBetter"
    /\ last_submit_time # EmptyDict

\* C4, as stated: from an empty store bob's 100 is Accepted(100); the same tuple with
\* 90 straight after is RejectedNotBetter(100); 150 after that is Accepted(150); the
\* tuple's board then starts with (bob, 150).
C4_ScenarioAsStated ==
    pc \in {"writing", "reply"} =>
        /\ scen.stage = 1 => reply = Reply("Accepted", "", 100, <<>>)
        /\ (scen.stage = 2 /\ clock = scen.t0) =>
                reply = Reply("RejectedNotBetter", "", 100, <<>>)
        /\ (scen.stage = 3 /\ scen.late) => reply = Reply("Accepted", "", 150, <<>>)
        /\ (scen.stage = 4 /\ scen.late) =>
                reply.kind = "Board" /\ reply.rows # <<>> /\ reply.rows[1] = <<"bob", 150>>

\* C4, amended: the 90 is RejectedNotBetter(100) when it is submitted
\* COOLDOWN_SECONDS or more after the accepted 100, and RejectedCooldown when it is
\* submitted sooner; the 150, also COOLDOWN_SECONDS or more after the 100, is
\* Accepted(150), and the tuple's board then starts with (bob, 150).
C4_ScenarioPastCooldown ==
    pc \in {"writing", "reply"} =>
        /\ scen.stage = 1 => reply = Reply("Accepted", "", 100, <<>>)
        /\ scen.stage = 2 =>
                reply = IF scen.late THEN Reply("RejectedNotBetter", "", 100, <<>>)
                        ELSE Reply("RejectedCooldown", "", 0, <<>>)
        /\ (scen.stage = 3 /\ scen.late) => reply = Reply("Accepted", "", 150, <<>>)
        /\ (scen.stage = 4 /\ scen.late) =>
                reply.kind = "Board" /\ reply.rows # <<>> /\ reply.rows[1] = <<"bob", 150>>

\* The scenario has run to its end, each submit outside the cooldown window.
C4_Witness == pc = "reply" /\ scen.stage = 4 /\ scen.late /\ reply.kind = "Board"

\* C6, as stated, and read in its favour where the cooldown is concerned: a submit
\* with a drive type, track or layout that is not in the catalog, or with a score
\* <= 0, is rejected (as invalid input, or for cooldown inside the window), saves
\* nothing and leaves the store and the rate-limit map as they were.
C6_InvalidInputRejected ==
    pc = "run" =>
        \A user \in Users, p \in Places, score \in ScoreInputs :
            (~InCatalog(p[1], p[2], p[3]) \/ score <= 0) =>
                /\ Would(user, p, score).reply.kind \in {"RejectedInvalidInput", "RejectedCooldown"}
                /\ Would(user, p, score).lb = leaderboard
                /\ Would(user, p, score).lst = last_submit_time
                /\ ~Would(user, p, score).save

\* C7, as stated: after a crash with no I/O error before it, what the next load
\* brings back is the store the process held when it died, or that store without
\* its most recent accepted mutation.
C7_CrashLosesAtMostLastMutation ==
    (crashed.valid /\ pc # "down" /\ ioErrors = 0) =>
        \/ Entries(leaderboard) = Entries(crashed.mem)
        \/ Entries(leaderboard) = Entries(crashed.prev)

\* C8: when load_leaderboard() has found the file malformed, the store is the three
\* drive types, each empty; once it has returned, the file holds that state, and a
\* load by a new process reads that state from it.
C8_CorruptLoadResets ==
    reply.kind = "LoadedCorrupt" =>
        /\ DOMAIN leaderboard = {"RWD", "AWD", "FWD"}
        /\ \A d \in DOMAIN leaderboard : leaderboard[d] = EmptyDict
        /\ pc = "reply" =>
                /\ file.kind = "json"
                /\ file = Dump(leaderboard)
                /\ LoadLeaderboard(InitialLeaderboard, file).lb = leaderboard

\* A process that died inside save_leaderboard() has been restarted, and its load
\* has found the file malformed and returned.
C8_Witness == pc = "reply" /\ reply.kind = "LoadedCorrupt" /\ crashes > 0 /\ crashed.mem # InitialLeaderboard

\* C9: the entries of the store written out by save_leaderboard() and read back by
\* load_leaderboard() in a new process are the entries of the store; and a process
\* restarted after a completed save holds the entries it held when it died.
C9_RoundTrip ==
    /\ Entries(LoadLeaderboard(InitialLeaderboard, Dump(leaderboard)).lb) = Entries(leaderboard)
    /\ (crashed.valid /\ crashed.synced /\ pc # "down") =>
            Entries(leaderboard) = Entries(crashed.mem)

\* A restarted process has loaded a file with entries, one of them under a drive
\* type that reset_drive added, written by the process that died.
C9_Witness ==
    /\ pc = "reply"
    /\ reply.kind = "Loaded"
    /\ crashed.valid /\ crashed.synced
    /\ \E e \in Entries(leaderboard) : e[1] = "XYZ"

\* C10, as stated: a submitter's grand total is the sum of the submitter's totals in
\* the three drive types.
C10_GrandTotalIsSumOfDriveTotals ==
    \A u \in Users :
        Get(OverallTotals(leaderboard), u, 0) =
            Get(DriveTotals(leaderboard, "RWD"), u, 0)
            + Get(DriveTotals(leaderboard, "AWD"), u, 0)
            + Get(DriveTotals(leaderboard, "FWD"), u, 0)

\* C11: reset_drive(c) removes every entry of drive type c and leaves every other
\* drive type of the store as it was, and a second reset_drive(c) straight after
\* changes nothing more; the store a reset_drive leaves is the store before it with
\* the drive type emptied.
C11_ResetDriveClearsOneDrive ==
    /\ \A dt \in DriveInputs :
            LET lb1 == ClearDrive(leaderboard, dt)
            IN  /\ Entries(lb1) = {e \in Entries(leaderboard) : e[1] # dt}
                /\ \A d \in (DOMAIN leaderboard) \ {dt} : d \in DOMAIN lb1 /\ lb1[d] = leaderboard[d]
                /\ ClearDrive(lb1, dt) = lb1
    /\ (pc \in {"writing", "reply"} /\ reply.kind = "DriveReset") =>
            /\ leaderboard = ClearDrive(prev, reply.why)
            /\ Entries(leaderboard) = {e \in Entries(prev) : e[1] # reply.why}

\* reset_drive has just removed an entry of its drive type and left an entry of
\* another drive type in the store.
C11_Witness ==
    /\ pc = "reply"
    /\ reply.kind = "DriveReset"
    /\ \E e \in Entries(prev) : e[1] = reply.why
    /\ \E e \in Entries(leaderboard) : e[1] # reply.why

\* C12: delete_score by an admin for a (drive type, track, layout, user) without an
\* entry, whichever of the four keys is the missing one, answers NotFound, leaves
\* the store as it was and does not save; and a delete_score that answers NotFound
\* has left the store and the file as they were.
C12_DeleteMissingIsNotFound ==
    /\ [](pc = "run" =>
            \A p \in Places, user \in Users :
                ~Has(<<p[1], p[2], p[3], user>>) =>
                    DeleteResult(leaderboard, TRUE, p[1], p[2], p[3], user) =
                        [lb |-> leaderboard, save |-> FALSE,
                         reply |-> Reply("NotFound", "", 0, <<>>)])
    /\ [][(pc = "run" /\ reply'.kind = "NotFound") =>
            (leaderboard' = leaderboard /\ file' = file /\ pc' = "reply")]_vars

\* delete_score has just answered NotFound while the store holds entries and the
\* file holds the store.
C12_Witness ==
    /\ pc = "reply"
    /\ reply.kind = "NotFound"
    /\ Entries(leaderboard) # {}
    /\ file = Dump(leaderboard)

\* The step is a handler whose mutation of the store is in place when its
\* save_leaderboard() raises at open().
MutationKept ==
    \/ \E user \in Users, p \in FaultPlaces, score \in FaultScores :
            /\ Would(user, p, score).save
            /\ leaderboard' = Would(user, p, score).lb
            /\ last_submit_time' = Would(user, p, score).lst
    \/ \E user \in Users, p \in FaultPlaces :
            /\ Has(<<p[1], p[2], p[3], user>>)
            /\ leaderboard' = DelScore(leaderboard, p[1], p[2], p[3], user)
    \/ \E dt \in {"RWD", "XYZ"} : leaderboard' = ClearDrive(leaderboard, dt)
    \/ leaderboard' = Update(EmptyDict, InitialLeaderboard)

\* C13: when save_leaderboard() raises, at open() or inside json.dump, the store in
\* memory is the store with the handler's mutation, and the rate-limit map keeps the
\* submit's record; the handlers that run afterwards read that store: the overall
\* board is computed from the store in memory, whatever the file holds.
C13_FlushFailureKeepsMutation ==
    /\ [][reply'.kind = "Raised" =>
            IF pc = "writing"
            THEN leaderboard' = leaderboard /\ last_submit_time' = last_submit_time
            ELSE IF pc = "run"
            THEN MutationKept
            ELSE leaderboard' = LoadLeaderboard(leaderboard, file).lb]_vars
    /\ [][(pc = "reply" /\ pc' = "run") =>
            (leaderboard' = leaderboard /\ last_submit_time' = last_submit_time)]_vars
    /\ [](reply.kind = "Board" => reply.rows \in SortedTop(OverallTotals(leaderboard)))

\* After a save that raised, the store holds an entry the file does not hold, and
\* the overall board has just been answered with it.
C13_Witness ==
    /\ pc = "reply"
    /\ reply.kind = "Board"
    /\ reply.rows # <<>>
    /\ saveError
    /\ \E e \in Entries(leaderboard) : e \notin file.members

\* C14, as stated: a submit by a user with no record in last_submit_time is not
\* answered RejectedCooldown, whatever the clock reads.
C14_NoRecordNoCooldown ==
    pc = "run" =>
        \A user \in Users, score \in ScenarioScores :
            user \notin DOMAIN last_submit_time =>
                Would(user, ScenPlace, score).reply.kind # "RejectedCooldown"

\* C15: when load_leaderboard() at start-up has found no file, the store is the
\* three drive types, each empty; once it has returned, the file exists and holds
\* that state.
C15_MissingFileCreated ==
    reply.kind = "LoadedMissing" =>
        /\ DOMAIN leaderboard = {"RWD", "AWD", "FWD"}
        /\ \A d \in DOMAIN leaderboard : leaderboard[d] = EmptyDict
        /\ pc = "reply" =>
                /\ file.kind = "json"
                /\ file = Dump(InitialLeaderboard)
                /\ Parse(file) = InitialLeaderboard

\* load_leaderboard() has found no file, created it and returned.
C15_Witness == pc = "reply" /\ reply.kind = "LoadedMissing" /\ file # NoFile

\* C16: in every step, an entry that exists before and after the step has a value
\* after it that is at least its value before; and an Accepted submit leaves exactly
\* one entry that is new or changed, holding the submitted score, which is strictly
\* greater than the entry's value before when there was one.
C16_EntriesNeverDecrease ==
    [][/\ \A e \in Entries(leaderboard) :
            HasEntry(leaderboard', e[1], e[2], e[3], e[4]) =>
                leaderboard'[e[1]][e[2]][e[3]][e[4]] >= e[5]
       /\ (pc = "run" /\ reply'.kind = "Accepted") =>
            \E e \in Entries(leaderboard') :
                /\ Entries(leaderboard') \ Entries(leaderboard) = {e}
                /\ e[5] = reply'.val
                /\ HasEntry(leaderboard, e[1], e[2], e[3], e[4]) =>
                        e[5] > leaderboard[e[1]][e[2]][e[3]][e[4]]]_vars

\* An Accepted submit has just raised the value of an entry that existed before it.
C16_Witness ==
    /\ pc \in {"writing", "reply"}
    /\ reply.kind = "Accepted"
    /\ \E e \in Entries(prev) :
            /\ HasEntry(leaderboard, e[1], e[2], e[3], e[4])
            /\ leaderboard[e[1]][e[2]][e[3]][e[4]] > e[5]

RECURSIVE SumScores(_)
\* The sum of the scores of a set of entries.
SumScores(es) ==
    IF es = {} THEN 0
    ELSE LET e == CHOOSE x \in es : TRUE IN e[5] + SumScores(es \ {e})

\* The user's entries, and the user's sum, in the drive types cats of the store.
EntriesOf(user, cats) == {e \in Entries(leaderboard) : e[4] = user /\ e[1] \in cats}

SumOf(user, cats) == SumScores(EntriesOf(user, cats))

\* r is a position of user when the users with an entry in cats are put in
\* descending order of their sums there.
IsRankOf(user, cats, r) ==
    LET ranked == {u \in Users : EntriesOf(u, cats) # {}}
    IN  /\ r > Cardinality({u \in ranked : SumOf(u, cats) > SumOf(user, cats)})
        /\ r <= Cardinality({u \in ranked : SumOf(u, cats) >= SumOf(user, cats)})

\* What the claim asks of an answer of my_stats to user.
StatsAsClaimed(user, out) ==
    LET all == DOMAIN leaderboard
        mine == {d \in all : EntriesOf(user, {d}) # {}}
    IN  /\ out.kind = "NoScores" <=> EntriesOf(user, all) = {}
        /\ EntriesOf(user, all) # {} =>
            /\ out.kind = "Stats"
            /\ out.rows[1][1] = "Overall"
            /\ out.rows[1][2] = SumOf(user, all)
            /\ IsRankOf(user, all, out.rows[1][3])
            /\ {out.rows[i][1] : i \in 2..Len(out.rows)} = mine
            /\ Len(out.rows) = 1 + Cardinality(mine)
            /\ \A i \in 2..Len(out.rows) :
                    /\ out.rows[i][2] = SumOf(user, {out.rows[i][1]})
                    /\ IsRankOf(user, {out.rows[i][1]}, out.rows[i][3])

\* C17, as stated: my_stats tells a user with no entry that they have no scores, and
\* no other user; to a user with an entry it reports the user's grand total with its
\* rank among all users, and, for exactly the drive types where the user has an
\* entry, the user's total there with its rank there.
C17_StatsAsStated ==
    pc = "run" =>
        \A user \in Users : \A out \in MyStatsReplies(leaderboard, user) :
            StatsAsClaimed(user, out)

\* The entries of the store in the scope of a board: one tuple, one drive type, or
\* the whole store.
InScope(scope, e) ==
    IF scope[1] = "track" THEN <<e[1], e[2], e[3]>> = <<scope[2], scope[3], scope[4]>>
    ELSE IF scope[1] = "drive" THEN e[1] = scope[2]
    ELSE TRUE

ScopeUsers(scope) == {e[4] : e \in {x \in Entries(leaderboard) : InScope(scope, x)}}

\* The user's aggregate in the scope: the sum of the user's scores there.
Aggregate(scope, u) ==
    SumScores({e \in Entries(leaderboard) : e[4] = u /\ InScope(scope, e)})

\* What the claim asks of the rows a board returns for the scope.
BoardAsClaimed(scope, rows) ==
    LET n == Len(rows)
        returned == {rows[i][1] : i \in 1..n}
    IN  /\ n <= 10
        /\ \A i, j \in 1..n : i < j => rows[i][2] >= rows[j][2]
        /\ \A i \in 1..n :
                /\ rows[i][1] \in ScopeUsers(scope)
                /\ rows[i][2] = Aggregate(scope, rows[i][1])
        /\ \A u \in ScopeUsers(scope) \ returned :
                \A i \in 1..n : Aggregate(scope, u) <= rows[i][2]

\* C18: the rows of leaderboard_track, leaderboard_drive and leaderboard_overall are
\* at most 10 (user, score) pairs in non-increasing order of score, each pair is a
\* user of the scope with the sum of that user's scores in the scope, and every user
\* of the scope who is not in the rows has a sum less than or equal to every score in
\* the rows.  (The rows also name no user twice, and leave a user of the scope out
\* only when there are 10 rows.)
C18_BoardsAreTopTen ==
    reply.kind = "Board" =>
        /\ BoardAsClaimed(reply.why, reply.rows)
        /\ \A i, j \in 1..Len(reply.rows) : i # j => reply.rows[i][1] # reply.rows[j][1]
        /\ Len(reply.rows) < 10 => ScopeUsers(reply.why) = {reply.rows[i][1] : i \in 1..Len(reply.rows)}

\* A board of a scope with more than 10 users has returned 10 rows, and the user it
\* left out has the same total as the last user it shows.
C18_Witness ==
    /\ reply.kind = "Board"
    /\ Len(reply.rows) = 10
    /\ \E u \in ScopeUsers(reply.why) :
            /\ \A i \in 1..10 : reply.rows[i][1] # u
            /\ Aggregate(reply.why, u) = reply.rows[10][2]

\* C19, as stated: the keys of the store are always exactly RWD, AWD and FWD, and
\* every entry of the store is under a drive type of DRIVE_TYPES, a track of TRACKS
\* and a layout of that track.
C19_DriveTypesClosed ==
    /\ DOMAIN leaderboard = DRIVE_TYPES
    /\ \A e \in Entries(leaderboard) : InCatalog(e[1], e[2], e[3])

\* The Accepted submits, in the order in which they were applied.
AcceptedApplied == order.applied

\* C20: with submit coroutines interleaved by the event loop, nothing changes the
\* store or the rate-limit map while a submit is between its cooldown test and the
\* end of its body, two Accepted submits of one user are never less than
\* COOLDOWN_SECONDS apart, and the Accepted submits of one user are applied in the
\* order in which they passed the cooldown test.
C20_SubmitBodyIsAtomic ==
    /\ [][\A h \in 1..MaxTasks :
            (tasks[h].at = "checked" /\ tasks'[h].at = "checked") =>
                /\ leaderboard' = leaderboard
                /\ last_submit_time' = last_submit_time
                /\ file' = file]_vars
    /\ [](\A i, j \in 1..Len(AcceptedApplied) :
            (i < j /\ AcceptedApplied[i].user = AcceptedApplied[j].user) =>
                /\ AcceptedApplied[j].now - AcceptedApplied[i].now >= COOLDOWN_SECONDS
                /\ AcceptedApplied[i].token < AcceptedApplied[j].token)

\* Two submit coroutines of one user are alive at the same time, both at their final
\* await: the first was Accepted, the second was inside the cooldown window.
C20_Witness ==
    \E h, k \in 1..MaxTasks :
        /\ h # k
        /\ tasks[h].at = "await" /\ tasks[h].reply.kind = "Accepted"
        /\ tasks[k].at = "await" /\ tasks[k].reply.kind = "RejectedCooldown"
        /\ tasks[h].user = tasks[k].user

\* The outcomes of the handlers that change the store, and of those that refuse.
MutatedKinds == {"Accepted", "Deleted", "DriveReset", "AllReset"}

RefusedKinds ==
    {"RejectedCooldown", "RejectedInvalidInput", "RejectedNotBetter", "NotFound", "AdminOnly"}

\* C21: when no handler is between its mutation and the end of save_leaderboard()
\* and the last save_leaderboard() did not raise, DATA_FILE holds the dump of the
\* store; a handler that changes the store goes into save_leaderboard() in the same
\* step, before it answers; a handler that refuses leaves the store and the file as
\* they are.
C21_FileIsStoreWhenIdle ==
    /\ []((pc \in {"run", "reply"} /\ ~saveError) => file = Dump(leaderboard))
    /\ [][(pc = "run" /\ pc' \in {"writing", "reply"}) =>
            /\ leaderboard' # leaderboard => (pc' = "writing" \/ reply' = Raised)
            /\ reply'.kind \in MutatedKinds => pc' = "writing"
            /\ reply'.kind \in RefusedKinds =>
                    (pc' = "reply" /\ file' = file /\ leaderboard' = leaderboard)]_vars

\* A handler has answered after a save that went through, the store holds an entry
\* and an earlier save had raised.
C21_Witness ==
    /\ pc = "reply"
    /\ reply.kind \in MutatedKinds
    /\ ~saveError
    /\ ioErrors > 0
    /\ Entries(leaderboard) # {}
    /\ file = Dump(leaderboard)

====
